---- MODULE Spec2Model ----
(***************************************************************************)
(* Model of pkg/openstack/clients_factory.go: the per-tenant client cache  *)
(* (clientsFactory).  One clientsFactory is modelled; its clientType is    *)
(* fixed at construction.  Callers are goroutines that call get(meta)      *)
(* concurrently.  A get is split at the points where the Go scheduler can  *)
(* interleave goroutines: the mutex acquisition, the map lookup, each of   *)
(* the three external construction calls, and the return path.             *)
(***************************************************************************)
EXTENDS Integers, Sequences, FiniteSets, TLC

(***************************************************************************)
(* Bounds of the model.                                                    *)
(***************************************************************************)
NumCallers == 2
MaxCalls == 3
MaxAliasLen == 2

Callers == 1 .. NumCallers

(***************************************************************************)
(* Program constants (clients_factory.go:14-22).                           *)
(***************************************************************************)
CustomProjectAliasLabel == "shared.salt.x5.ru/project-alias"
computeClientType == "compute"
networkClientType == "network"
loadbalancerClientType == "loadbalancer"
routesClientType == "routes"
secretClientType == "secrets"
configsPath == "/etc/config/"

ClientKinds ==
    {computeClientType, networkClientType, loadbalancerClientType,
     routesClientType, secretClientType}

\* A selector newClientsFactory accepts (any string) that the switch in
\* getProjectTypedClient does not know.
UnsupportedClientType == "volume"

\* Tenant aliases carried by the label in the concurrent model.
Aliases == {"acme", "beta"}

(***************************************************************************)
(* Values.                                                                 *)
(***************************************************************************)
NilErr == "nil"
NilClient == [ctor |-> "nil", file |-> "", id |-> 0]
\* The client handed to newClientsFactory.  It is built outside this file, by
\* callers that construct it before they construct the factory; it is taken
\* to be a constructed (non-nil) client.
TheDefaultClient == [ctor |-> "default", file |-> "", id |-> 0]
NilConfig == [file |-> ""]
NilProvider == [file |-> "", userAgent |-> ""]
Unlocked == 0

\* metav1.ObjectMeta as far as get reads it: Labels is a map that may be nil.
\* A nil map and an empty map both read as "" for every key.
NilLabels == [hasLabels |-> FALSE, Labels |-> [k \in {} |-> ""]]
MetaWith(v) ==
    [hasLabels |-> TRUE, Labels |-> [k \in {CustomProjectAliasLabel} |-> v]]
MetaOtherLabels ==
    [hasLabels |-> TRUE, Labels |-> [k \in {"app"} |-> "web"]]
Metas == {NilLabels, MetaOtherLabels, MetaWith("")} \cup {MetaWith(a) : a \in Aliases}

\* Go map read: a missing key (and any key of a nil map) yields "".
MapGet(labels, k) == IF k \in DOMAIN labels THEN labels[k] ELSE ""

VARIABLES
    clientType,      \* c.clientType
    defaultClient,   \* c.defaultClient
    clients,         \* c.clients: key -> client
    m,               \* c.m: Unlocked, or the caller holding it
    pc,              \* where each caller is inside get
    meta,            \* the argument of each caller's get
    customProjectAlias, \* local of get
    cloudConfig,     \* local of getProjectTypedClient
    provider,        \* local of getProjectTypedClient
    typedClient,     \* result of getProjectTypedClient
    err,             \* error result of getProjectTypedClient
    ok,              \* second result of getProjectProvider
    invoked,         \* the capabilities the current get has called, in order
    hit,             \* whether the caller's lookup found the key
    ret,             \* value get returns
    stats,           \* per alias: invocations of the external capabilities
    stored,          \* per key: number of writes c.clients[key] = ...
    returned,        \* per alias: the clients tenant-scoped gets returned
    nextId,          \* identity of the next client a constructor allocates
    ncalls,          \* number of get calls started
    keyIn,           \* inputs of the clientKey check
    keyOut           \* results of the clientKey check

vars ==
    <<clientType, defaultClient, clients, m, pc, meta, customProjectAlias,
      cloudConfig, provider, typedClient, err, ok, invoked, hit, ret, stats,
      stored,
      returned, nextId, ncalls, keyIn, keyOut>>

locals == <<cloudConfig, provider, typedClient, err, ok, invoked>>
history == <<stats, stored, returned, nextId>>
keyVars == <<keyIn, keyOut>>

(***************************************************************************)
(* Pure functions of the file.                                             *)
(***************************************************************************)
\* Slip: a routes cache shares the key space of the network cache, as it
\* shares its constructor.
clientKeyOfShared(kind, projectID) ==
    (IF kind = routesClientType THEN networkClientType ELSE kind) \o "/" \o projectID

\* Slip: the key leaves the alias out, so all tenants share one entry.
clientKeyOfKindOnly(kind, projectID) == kind \o "/"

\* Slip: the key is the alias alone.
clientKeyOfAliasOnly(kind, projectID) == "/" \o projectID

\* clients_factory.go:149-151
clientKeyOf(kind, projectID) == kind \o "/" \o projectID

clientKey(projectID) == clientKeyOf(clientType, projectID)

\* clients_factory.go:153-155
configPath(configName) == configsPath \o "/" \o configName \o ".conf"

\* Slip: only the nil map is tested, not the empty or missing label.
IsDefaultScopeNilOnly(md) == ~md.hasLabels

\* clients_factory.go:41
IsDefaultScope(md) ==
    \/ ~md.hasLabels
    \/ MapGet(md.Labels, CustomProjectAliasLabel) = ""

\* Slip: the switch has a default case that builds a network client.
TypedConstructorWithDefault(kind) ==
    CASE kind = computeClientType -> "NewComputeV2"
      [] kind = loadbalancerClientType -> "NewLoadBalancerV2"
      [] kind = secretClientType -> "NewKeyManagerV1"
      [] OTHER -> "NewNetworkV2"

\* clients_factory.go:80-118: the constructor the switch dispatches to;
\* "none" is the fall-through to "unknown client type".
TypedConstructor(kind) ==
    CASE kind = computeClientType -> "NewComputeV2"
      [] kind = networkClientType -> "NewNetworkV2"
      [] kind = loadbalancerClientType -> "NewLoadBalancerV2"
      [] kind = routesClientType -> "NewNetworkV2"
      [] kind = secretClientType -> "NewKeyManagerV1"
      [] OTHER -> "none"

(***************************************************************************)
(* The external capabilities.  Whether a call succeeds is decided by the   *)
(* environment (file system, identity service, service catalogue), so each *)
(* takes the outcome as an argument and the actions choose it freely.      *)
(***************************************************************************)
ConfigOutcomes == {"ok", "open-fails", "parse-fails"}
CallOutcomes == {"ok", "fails"}

\* Slip: the error of ReadConfig is not checked; the zero Config is returned.
getProjectConfigUnchecked(projectAlias, outcome) ==
    LET fullConfigPath == configPath(projectAlias) IN
    CASE outcome = "open-fails" ->
           [config |-> NilConfig, err |-> "failed to open cloud provider configuration"]
      [] OTHER ->
           [config |-> [file |-> fullConfigPath], err |-> NilErr]

\* clients_factory.go:121-138: open configPath(alias), parse it.
getProjectConfig(projectAlias, outcome) ==
    LET fullConfigPath == configPath(projectAlias) IN
    CASE outcome = "open-fails" ->
           [config |-> NilConfig, err |-> "failed to open cloud provider configuration"]
      [] outcome = "parse-fails" ->
           [config |-> NilConfig, err |-> "failed to read cloud provider configuration"]
      [] OTHER ->
           [config |-> [file |-> fullConfigPath], err |-> NilErr]

\* client.NewOpenStackClient(&cfg.Global, userAgent, ...): a provider handle
\* for the configuration's credentials, or an error.
NewOpenStackClient(cfg, userAgent, outcome) ==
    IF outcome = "ok"
    THEN [provider |-> [file |-> cfg.file, userAgent |-> userAgent], err |-> NilErr]
    ELSE [provider |-> NilProvider, err |-> "authentication failed"]

\* Slip: the builder's error is swallowed: failure is reported as
\* (nil, false, nil).
getProjectProviderSwallowed(cfg, outcome) ==
    LET r == NewOpenStackClient(cfg, "openstack-cloud-controller-manager", outcome) IN
    IF r.err # NilErr
    THEN [provider |-> NilProvider, ok |-> FALSE, err |-> NilErr]
    ELSE [provider |-> r.provider, ok |-> TRUE, err |-> NilErr]

\* clients_factory.go:140-147
getProjectProvider(cfg, outcome) ==
    LET r == NewOpenStackClient(cfg, "openstack-cloud-controller-manager", outcome) IN
    IF r.err # NilErr
    THEN [provider |-> NilProvider, ok |-> FALSE, err |-> "failed to create openstack client"]
    ELSE [provider |-> r.provider, ok |-> TRUE, err |-> NilErr]

\* client.NewComputeV2 / NewNetworkV2 / NewLoadBalancerV2 / NewKeyManagerV1:
\* a freshly allocated typed client for the provider handle, or an error.
NewServiceClient(ctor, prov, id, outcome) ==
    IF outcome = "ok"
    THEN [client |-> [ctor |-> ctor, file |-> prov.file, id |-> id], err |-> NilErr]
    ELSE [client |-> NilClient, err |-> "endpoint not found"]

(***************************************************************************)
(* The mutex and the map.                                                  *)
(***************************************************************************)
\* Slip: Lock does not wait.
MutexFreeNoWait == TRUE

\* sync.Mutex.Lock (clients_factory.go:45) returns only when no goroutine
\* holds the mutex.
MutexFree == m = Unlocked

\* Slip: the mutex is taken at the top of get, before the label test.
DefaultPathReadyAfterLock == m = Unlocked

\* What the default-scope return (clients_factory.go:41-43) waits for: it
\* precedes c.m.Lock() at line 45, so nothing.
DefaultPathReady == TRUE

\* Slip: the error branch returns without releasing the mutex.
ReleasedExceptOnFailure(p, exit) == IF exit = "failure" THEN p ELSE Unlocked

\* The holder of c.m after get returns through the given exit ("hit",
\* "failure", "success"): the deferred Unlock (clients_factory.go:46) runs on
\* each of them.
Released(p, exit) == Unlocked

\* Slip: the mutex is held around the map read only and released before
\* construction.
HolderOnMissReleased(p) == Unlocked

\* The holder of c.m while a caller that missed constructs: the deferred
\* Unlock (clients_factory.go:46) has not run, so the caller still holds it.
HolderOnMiss(p) == p

\* Slip: the store replaces the map by one holding the new entry alone.
MapPutFresh(mp, key, v) == [k \in {key} |-> v]

\* c.clients after c.clients[key] = v (clients_factory.go:56).
MapPut(mp, key, v) ==
    [k \in DOMAIN mp \cup {key} |-> IF k = key THEN v ELSE mp[k]]

\* Slip: the fallback is cached under the key.
ClientsOnFailureCached(key) == MapPut(clients, key, defaultClient)

\* c.clients after the error branch of get (clients_factory.go:52-55): the
\* map is not written.
ClientsOnFailure(key) == clients

\* Caller p's get calls the capability; the environment decides the outcome.
Invoke(p, capability, outcome) ==
    invoked' = [invoked EXCEPT ![p] = Append(@, [step |-> capability, ok |-> outcome = "ok"])]

Bump(a, field) == [stats EXCEPT ![a][field] = @ + 1]

NoStats == [loader |-> 0, loaderOK |-> 0, provider |-> 0, typed |-> 0, built |-> 0]

(***************************************************************************)
(* Init: the state after newClientsFactory (clients_factory.go:31-38).     *)
(***************************************************************************)
FactoryInit(kind) ==
    /\ clientType = kind
    /\ defaultClient = TheDefaultClient
    /\ clients = [k \in {} |-> NilClient]
    /\ m = Unlocked
    /\ pc = [p \in Callers |-> "idle"]
    /\ meta = [p \in Callers |-> NilLabels]
    /\ customProjectAlias = [p \in Callers |-> ""]
    /\ cloudConfig = [p \in Callers |-> NilConfig]
    /\ provider = [p \in Callers |-> NilProvider]
    /\ typedClient = [p \in Callers |-> NilClient]
    /\ err = [p \in Callers |-> NilErr]
    /\ ok = [p \in Callers |-> FALSE]
    /\ invoked = [p \in Callers |-> <<>>]
    /\ hit = [p \in Callers |-> FALSE]
    /\ ret = [p \in Callers |-> NilClient]
    /\ stats = [a \in Aliases |-> NoStats]
    /\ stored = [k \in {} |-> 0]
    /\ returned = [a \in Aliases |-> {}]
    /\ nextId = 1
    /\ ncalls = 0

NoKeyIn == [k1 |-> "", a1 |-> "", k2 |-> "", a2 |-> ""]
NoKeyOut == [done |-> FALSE, key1 |-> "", key2 |-> ""]

Init ==
    /\ \E kind \in ClientKinds \cup {UnsupportedClientType} : FactoryInit(kind)
    /\ keyIn = NoKeyIn
    /\ keyOut = NoKeyOut

(***************************************************************************)
(* get (clients_factory.go:40-58), one action per step.                    *)
(***************************************************************************)
ResetLocals(p) ==
    /\ cloudConfig' = [cloudConfig EXCEPT ![p] = NilConfig]
    /\ provider' = [provider EXCEPT ![p] = NilProvider]
    /\ typedClient' = [typedClient EXCEPT ![p] = NilClient]
    /\ err' = [err EXCEPT ![p] = NilErr]
    /\ ok' = [ok EXCEPT ![p] = FALSE]
    /\ invoked' = [invoked EXCEPT ![p] = <<>>]

\* getProjectTypedClient returns (tc, e) to get.
Yield(p, tc, e) ==
    /\ typedClient' = [typedClient EXCEPT ![p] = tc]
    /\ err' = [err EXCEPT ![p] = e]
    /\ pc' = [pc EXCEPT ![p] = "finish"]

\* clients_factory.go:40-44: the call and the default-scope test.
Enter(p) ==
    /\ pc[p] = "idle"
    /\ ncalls < MaxCalls
    /\ \E md \in Metas :
         /\ meta' = [meta EXCEPT ![p] = md]
         /\ IF IsDefaultScope(md)
            THEN /\ DefaultPathReady
                 /\ ret' = [ret EXCEPT ![p] = defaultClient]
                 /\ pc' = [pc EXCEPT ![p] = "done"]
                 /\ UNCHANGED customProjectAlias
            ELSE /\ customProjectAlias' =
                      [customProjectAlias EXCEPT
                         ![p] = MapGet(md.Labels, CustomProjectAliasLabel)]
                 /\ pc' = [pc EXCEPT ![p] = "lock"]
                 /\ UNCHANGED ret
    /\ ncalls' = ncalls + 1
    /\ UNCHANGED <<clientType, defaultClient, clients, m, locals, hit, history, keyVars>>

\* clients_factory.go:45-46: c.m.Lock(); defer c.m.Unlock()
Lock(p) ==
    /\ pc[p] = "lock"
    /\ MutexFree
    /\ m' = p
    /\ pc' = [pc EXCEPT ![p] = "lookup"]
    /\ UNCHANGED <<clientType, defaultClient, clients, meta, customProjectAlias,
                   locals, hit, ret, history, ncalls, keyVars>>

\* clients_factory.go:47-50: the map read; a hit returns under the deferred Unlock.
Lookup(p) ==
    /\ pc[p] = "lookup"
    /\ LET a == customProjectAlias[p]
           key == clientKey(a)
       IN IF key \in DOMAIN clients
          THEN /\ hit' = [hit EXCEPT ![p] = TRUE]
               /\ ret' = [ret EXCEPT ![p] = clients[key]]
               /\ returned' = [returned EXCEPT ![a] = @ \cup {clients[key]}]
               /\ m' = Released(p, "hit")
               /\ pc' = [pc EXCEPT ![p] = "done"]
          ELSE /\ hit' = [hit EXCEPT ![p] = FALSE]
               /\ m' = HolderOnMiss(p)
               /\ pc' = [pc EXCEPT ![p] = "config"]
               /\ UNCHANGED <<ret, returned>>
    /\ UNCHANGED <<clientType, defaultClient, clients, meta, customProjectAlias,
                   locals, stats, stored, nextId, ncalls, keyVars>>

\* clients_factory.go:61-64: getProjectTypedClient loads the configuration.
LoadConfig(p) ==
    /\ pc[p] = "config"
    /\ \E outcome \in ConfigOutcomes :
         LET a == customProjectAlias[p]
             r == getProjectConfig(a, outcome)
         IN /\ Invoke(p, "loader", outcome)
            /\ IF r.err # NilErr
               THEN /\ Yield(p, NilClient, "failed to read cloud provider configuration")
                    /\ stats' = Bump(a, "loader")
                    /\ UNCHANGED cloudConfig
               ELSE /\ cloudConfig' = [cloudConfig EXCEPT ![p] = r.config]
                    /\ stats' = [stats EXCEPT ![a]["loader"] = @ + 1,
                                              ![a]["loaderOK"] = @ + 1]
                    /\ pc' = [pc EXCEPT ![p] = "provider"]
                    /\ UNCHANGED <<typedClient, err>>
    /\ UNCHANGED <<clientType, defaultClient, clients, m, meta, customProjectAlias,
                   provider, ok, hit, ret, stored, returned, nextId, ncalls, keyVars>>

\* clients_factory.go:65-73: the provider handle; an error or !ok returns (nil, err).
BuildProvider(p) ==
    /\ pc[p] = "provider"
    /\ \E outcome \in CallOutcomes :
         LET r == getProjectProvider(cloudConfig[p], outcome) IN
         /\ Invoke(p, "provider", outcome)
         /\ ok' = [ok EXCEPT ![p] = r.ok]
         /\ IF r.err # NilErr
            THEN /\ Yield(p, NilClient, r.err)
                 /\ UNCHANGED provider
            ELSE IF ~r.ok
            THEN /\ Yield(p, NilClient, r.err)
                 /\ UNCHANGED provider
            ELSE /\ provider' = [provider EXCEPT ![p] = r.provider]
                 /\ pc' = [pc EXCEPT ![p] = "typed"]
                 /\ UNCHANGED <<typedClient, err>>
    /\ stats' = Bump(customProjectAlias[p], "provider")
    /\ UNCHANGED <<clientType, defaultClient, clients, m, meta, customProjectAlias,
                   cloudConfig, hit, ret, stored, returned, nextId, ncalls, keyVars>>

\* clients_factory.go:75-118: the switch on c.clientType and the typed constructor.
BuildTyped(p) ==
    /\ pc[p] = "typed"
    /\ LET a == customProjectAlias[p]
           ctor == TypedConstructor(clientType)
       IN IF ctor = "none"
          THEN /\ Yield(p, NilClient, "unknown client type")
               /\ UNCHANGED <<stats, nextId, invoked>>
          ELSE \E outcome \in CallOutcomes :
                 LET r == NewServiceClient(ctor, provider[p], nextId, outcome) IN
                 /\ Invoke(p, "typed", outcome)
                 /\ IF r.err # NilErr
                    THEN /\ Yield(p, NilClient, r.err)
                         /\ stats' = Bump(a, "typed")
                         /\ UNCHANGED nextId
                    ELSE /\ Yield(p, r.client, NilErr)
                         /\ stats' = [stats EXCEPT ![a]["typed"] = @ + 1,
                                                   ![a]["built"] = @ + 1]
                         /\ nextId' = nextId + 1
    /\ UNCHANGED <<clientType, defaultClient, clients, m, meta, customProjectAlias,
                   cloudConfig, provider, ok, hit, ret, stored, returned, ncalls, keyVars>>

\* clients_factory.go:52-57 and the deferred Unlock: fall back to the default
\* client on an error, store and return the typed client otherwise.
Finish(p) ==
    /\ pc[p] = "finish"
    /\ LET a == customProjectAlias[p]
           key == clientKey(a)
       IN IF err[p] # NilErr
          THEN /\ clients' = ClientsOnFailure(key)
               /\ ret' = [ret EXCEPT ![p] = defaultClient]
               /\ returned' = [returned EXCEPT ![a] = @ \cup {defaultClient}]
               /\ UNCHANGED stored
          ELSE /\ clients' = MapPut(clients, key, typedClient[p])
               /\ stored' = MapPut(stored, key,
                                   IF key \in DOMAIN stored THEN stored[key] + 1 ELSE 1)
               /\ ret' = [ret EXCEPT ![p] = typedClient[p]]
               /\ returned' = [returned EXCEPT ![a] = @ \cup {typedClient[p]}]
    /\ m' = Released(p, IF err[p] # NilErr THEN "failure" ELSE "success")
    /\ pc' = [pc EXCEPT ![p] = "done"]
    /\ UNCHANGED <<clientType, defaultClient, meta, customProjectAlias, locals, hit,
                   stats, nextId, ncalls, keyVars>>

\* The caller takes the result; its goroutine may call get again.
Return(p) ==
    /\ pc[p] = "done"
    /\ pc' = [pc EXCEPT ![p] = "idle"]
    /\ ret' = [ret EXCEPT ![p] = NilClient]
    /\ hit' = [hit EXCEPT ![p] = FALSE]
    /\ customProjectAlias' = [customProjectAlias EXCEPT ![p] = ""]
    /\ meta' = [meta EXCEPT ![p] = NilLabels]
    /\ ResetLocals(p)
    /\ UNCHANGED <<clientType, defaultClient, clients, m, history, ncalls, keyVars>>

Next ==
    \/ \E p \in Callers : Enter(p)
    \/ \E p \in Callers : Lock(p)
    \/ \E p \in Callers : Lookup(p)
    \/ \E p \in Callers : LoadConfig(p)
    \/ \E p \in Callers : BuildProvider(p)
    \/ \E p \in Callers : BuildTyped(p)
    \/ \E p \in Callers : Finish(p)
    \/ \E p \in Callers : Return(p)

Spec == Init /\ [][Next]_vars

(***************************************************************************)
(* clientKey as a function of its two inputs.  KeySpec draws two           *)
(* (kind, alias) pairs and applies clientKey to each; the aliases are all  *)
(* strings of at most MaxAliasLen tokens, "/" and a kind name among them.  *)
(***************************************************************************)
KeyTokens == {"a", "/", networkClientType}

RECURSIVE Concat(_)
Concat(seq) == IF seq = <<>> THEN "" ELSE Head(seq) \o Concat(Tail(seq))

KeyAliases ==
    {Concat(seq) : seq \in UNION {[1 .. n -> KeyTokens] : n \in 1 .. MaxAliasLen}}

KeyInit ==
    /\ FactoryInit(computeClientType)
    /\ keyIn \in [k1 : ClientKinds, a1 : KeyAliases, k2 : ClientKinds, a2 : KeyAliases]
    /\ keyOut = NoKeyOut

\* Two factories of kinds k1, k2 derive the keys of aliases a1, a2.
DeriveKeys ==
    /\ ~keyOut.done
    /\ keyOut' = [done |-> TRUE,
                  key1 |-> clientKeyOf(keyIn.k1, keyIn.a1),
                  key2 |-> clientKeyOf(keyIn.k2, keyIn.a2)]
    /\ UNCHANGED <<clientType, defaultClient, clients, m, pc, meta,
                   customProjectAlias, locals, hit, ret, history, ncalls, keyIn>>

KeyNext == DeriveKeys

KeySpec == KeyInit /\ [][KeyNext]_vars

(***************************************************************************)
(* Vocabulary of the properties.                                           *)
(***************************************************************************)
\* The callers between the map lookup and the store/return, i.e. inside the
\* section the mutex is meant to cover.
InSection == {"lookup", "config", "provider", "typed", "finish"}
InGet == InSection \cup {"lock"}

\* The label test of get, written out on the label map itself.
DefaultScoped(md) ==
    \/ ~md.hasLabels
    \/ CustomProjectAliasLabel \notin DOMAIN md.Labels
    \/ md.Labels[CustomProjectAliasLabel] = ""

\* The key the cache uses for alias a, written out.
KeyFor(a) == clientType \o "/" \o a

\* No get for alias a is in progress.
Quiet(a) == \A p \in Callers : pc[p] \in InGet => customProjectAlias[p] # a

LoaderFailed == "failed to read cloud provider configuration"

\* C1 (as stated): once gets for a new alias have run to completion there is
\* exactly one successful loader call and exactly one stored entry for the key.
C1_ExactlyOneConstruction ==
    \A a \in Aliases :
        (clientType \in ClientKinds /\ Quiet(a) /\ returned[a] # {}) =>
            /\ stats[a].loaderOK = 1
            /\ KeyFor(a) \in DOMAIN clients
            /\ stored[KeyFor(a)] = 1

\* C1 (amended): for every alias, in every interleaving of any number of
\* concurrent gets, at most one construction succeeds and the key is
\* written at most once (no duplicate constructions); the entry exists
\* exactly when a construction succeeded and was stored; and when no
\* construction step failed, the completed gets invoked the loader exactly
\* once and stored exactly one entry.
C1_AtMostOneConstruction ==
    \A a \in Aliases :
        /\ stats[a].built <= 1
        /\ KeyFor(a) \in DOMAIN clients <=> KeyFor(a) \in DOMAIN stored
        /\ KeyFor(a) \in DOMAIN stored => stored[KeyFor(a)] = 1 /\ stats[a].built = 1
        /\ (Quiet(a) /\ returned[a] # {} /\ stats[a].built = stats[a].loader) =>
              /\ stats[a].loader = 1
              /\ stats[a].loaderOK = 1
              /\ KeyFor(a) \in DOMAIN clients
              /\ stored[KeyFor(a)] = 1

\* C1 witness: every caller is inside get with the same new alias at once; one
\* has constructed the client and is about to store it, the others wait for
\* the mutex, and the key is still absent.
C1_Witness ==
    /\ NumCallers >= 2
    /\ KeyFor("acme") \notin DOMAIN clients
    /\ \A p \in Callers : customProjectAlias[p] = "acme"
    /\ \E p \in Callers :
          /\ pc[p] = "finish" /\ err[p] = NilErr
          /\ \A q \in Callers \ {p} : pc[q] = "lock"

\* C2: the cache is append-only: a step never removes a key nor changes the
\* client stored under it, a key appears only by the store of a caller whose
\* construction succeeded, and each key is written at most once.
C2_Step ==
    /\ DOMAIN clients \subseteq DOMAIN clients'
    /\ \A k \in DOMAIN clients : clients'[k] = clients[k]
    /\ \A k \in DOMAIN clients' \ DOMAIN clients :
          \E p \in Callers :
             /\ pc[p] = "finish" /\ pc'[p] = "done"
             /\ err[p] = NilErr
             /\ k = KeyFor(customProjectAlias[p])
             /\ clients'[k] = typedClient[p]
             /\ typedClient[p].id >= 1
    /\ \A k \in DOMAIN clients' : k \in DOMAIN stored' /\ stored'[k] = 1

C2_AppendOnly == [][C2_Step]_vars

\* C2 witness: the map has grown to two keys and a later get has hit one.
C2_Witness ==
    /\ Cardinality(DOMAIN clients) = 2
    /\ \E p \in Callers : pc[p] = "done" /\ hit[p]

\* C3: a get whose loader call fails reports the failure, returns the default
\* client and leaves the map as it was (the key stays absent); no failure is
\* remembered: every lookup that misses goes on to invoke the loader again.
C3_Step ==
    \A p \in Callers :
        LET a == customProjectAlias[p] IN
        /\ (pc[p] = "config" /\ pc'[p] = "finish") =>
              /\ err'[p] = LoaderFailed
              /\ clients' = clients
        /\ (pc[p] = "finish" /\ err[p] = LoaderFailed /\ pc'[p] = "done") =>
              /\ ret'[p] = defaultClient
              /\ clients' = clients
              /\ KeyFor(a) \notin DOMAIN clients'
        /\ (pc[p] = "lookup" /\ pc'[p] # "lookup" /\ KeyFor(a) \notin DOMAIN clients) =>
              pc'[p] = "config"
        /\ (pc[p] = "config" /\ pc'[p] # "config") =>
              stats'[a].loader = stats[a].loader + 1

C3_FailureNotCached == [][C3_Step]_vars

\* C3 witness: on a compute cache the loader has failed for "acme", that get
\* returned the default client, "compute/acme" is absent, and a later get
\* for "acme" has invoked the loader a second time.
C3_Witness ==
    /\ clientType = computeClientType
    /\ "compute/acme" \notin DOMAIN clients
    /\ returned["acme"] = {defaultClient}
    /\ stats["acme"].loader = 2
    /\ stats["acme"].loaderOK = 0

\* C4 (as stated): the gets for one alias all return the same instance and
\* the loader, the provider builder and the typed constructors are invoked at
\* most once for that alias.
C4_AtMostOnceEver ==
    \A a \in Aliases :
        /\ Cardinality(returned[a]) <= 1
        /\ stats[a].loader <= 1
        /\ stats[a].provider <= 1
        /\ stats[a].typed <= 1

\* C4 (amended): once the key of an alias is present, every get for that
\* alias is a cache hit that returns the stored instance, and no step invokes
\* the loader, the provider builder or a typed constructor for it again; at
\* most one constructed instance is ever returned for the alias.
C4_Step ==
    \A a \in Aliases :
        /\ KeyFor(a) \in DOMAIN clients => stats'[a] = stats[a]
        /\ \A p \in Callers :
              (/\ customProjectAlias[p] = a
               /\ pc[p] = "lookup" /\ pc'[p] # "lookup"
               /\ KeyFor(a) \in DOMAIN clients) =>
                  /\ pc'[p] = "done"
                  /\ hit'[p]
                  /\ ret'[p] = clients[KeyFor(a)]
        /\ returned'[a] \ {defaultClient} \subseteq
              {clients'[k] : k \in DOMAIN clients' \cap {KeyFor(a)}}

C4_HitAfterPresent == [][C4_Step]_vars

\* C4 witness: a second get for an alias hit the cache and holds the very
\* instance the first one constructed, after exactly one loader call.
C4_Witness ==
    \E p \in Callers :
        /\ pc[p] = "done" /\ hit[p]
        /\ customProjectAlias[p] = "acme"
        /\ ret[p] = clients[KeyFor("acme")]
        /\ stats["acme"].loader = 1
        /\ stats["acme"].built = 1

\* C5: a get whose metadata has no label map, or no tenant-alias label, or an
\* empty one, returns the default client itself in one step, invoking nothing
\* and leaving the map and the mutex as they were.
C5_Step ==
    \A p \in Callers :
        (pc[p] = "idle" /\ pc'[p] # "idle" /\ DefaultScoped(meta'[p])) =>
            /\ pc'[p] = "done"
            /\ ret'[p] = defaultClient
            /\ ret'[p] = TheDefaultClient
            /\ clients' = clients
            /\ m' = m
            /\ stats' = stats
            /\ stored' = stored
            /\ nextId' = nextId

C5_DefaultScope == [][C5_Step]_vars

\* C5 witness: a default-scoped get has returned while another caller holds
\* the mutex and the map is not empty.
C5_Witness ==
    \E p \in Callers :
        /\ pc[p] = "done"
        /\ meta[p] = MetaWith("")
        /\ ret[p] = defaultClient
        /\ m # Unlocked
        /\ clients # <<>>

\* C6: whatever the metadata, the map and the outcomes of the loader, the
\* provider builder and the typed constructor, get returns a non-nil client.
C6_NeverNil ==
    \A p \in Callers : pc[p] = "done" => ret[p] # NilClient

\* C6 witness: a get whose provider builder failed has returned.
C6_Witness ==
    \E p \in Callers :
        /\ pc[p] = "done"
        /\ err[p] = "failed to create openstack client"
        /\ ret[p] = defaultClient

\* C7: on a cache whose kind is none of the five, every construction ends in
\* an error, every get returns the default client and the map stays empty.
C7_UnsupportedKind ==
    clientType \notin ClientKinds =>
        /\ DOMAIN clients = {}
        /\ \A p \in Callers :
              /\ pc[p] = "finish" => err[p] # NilErr
              /\ pc[p] = "done" => ret[p] = defaultClient
        /\ \A a \in Aliases : stats[a].built = 0

\* C7 witness: on such a cache the loader and the provider builder succeeded,
\* the switch found no constructor, and the get returned the default client.
C7_Witness ==
    /\ clientType = UnsupportedClientType
    /\ \E p \in Callers :
          /\ pc[p] = "done"
          /\ ok[p]
          /\ err[p] = "unknown client type"
          /\ ret[p] = defaultClient

\* C8: every key of the map is kind "/" alias for the cache's own kind; a
\* network cache stores acme's client under "network/acme"; a routes cache
\* builds with the network constructor and stores under "routes/acme", never
\* under "network/acme".
C8_KeyDerivation ==
    /\ DOMAIN clients \subseteq {clientType \o "/" \o a : a \in Aliases}
    /\ \A p \in Callers :
          (pc[p] = "done" /\ ~DefaultScoped(meta[p]) /\ ret[p] # defaultClient) =>
              /\ (clientType \o "/" \o customProjectAlias[p]) \in DOMAIN clients
              /\ clients[clientType \o "/" \o customProjectAlias[p]] = ret[p]
    /\ clientType = networkClientType =>
          /\ stats["acme"].built > 0 /\ Quiet("acme") => "network/acme" \in DOMAIN clients
          /\ \A k \in DOMAIN clients : clients[k].ctor = "NewNetworkV2"
    /\ clientType = routesClientType =>
          /\ stats["acme"].built > 0 /\ Quiet("acme") => "routes/acme" \in DOMAIN clients
          /\ "network/acme" \notin DOMAIN clients
          /\ \A k \in DOMAIN clients : clients[k].ctor = "NewNetworkV2"

\* C8 witness: a routes cache holds acme's client, built by the network
\* constructor, under "routes/acme".
C8_Witness ==
    /\ clientType = routesClientType
    /\ DOMAIN clients = {"routes/acme"}
    /\ clients["routes/acme"].ctor = "NewNetworkV2"

\* C9: for kinds among the five and non-empty aliases that may contain "/",
\* two (kind, alias) pairs get equal keys exactly when the pairs are equal.
C9_KeyInjective ==
    keyOut.done =>
        ((keyOut.key1 = keyOut.key2) <=>
            (keyIn.k1 = keyIn.k2 /\ keyIn.a1 = keyIn.a2))

\* C9 witness: keys were derived for two different kinds with aliases made of
\* "/" and a kind name, and they differ.
C9_Witness ==
    /\ keyOut.done
    /\ keyIn.k1 = computeClientType /\ keyIn.a1 = "network/"
    /\ keyIn.k2 = networkClientType /\ keyIn.a2 = "/"
    /\ keyOut.key1 = "compute/network/"
    /\ keyOut.key2 = "network//"

\* C10: at most one caller is between the lookup and the store at any time,
\* and it is the holder of the mutex; so constructions never overlap and no
\* caller reads the map while another is between its miss and its store.
C10_MutualExclusion ==
    /\ Cardinality({p \in Callers : pc[p] \in InSection}) <= 1
    /\ \A p \in Callers : pc[p] \in InSection => m = p

\* C10 witness: one caller is constructing acme's client while another, with
\* the unrelated alias beta, waits for the mutex.
C10_Witness ==
    \E p, q \in Callers :
        /\ pc[p] = "typed" /\ customProjectAlias[p] = "acme"
        /\ pc[q] = "lock" /\ customProjectAlias[q] = "beta"
        /\ m = p

\* A default-scoped get by caller p that returns the default client at once.
DefaultGet(p) ==
    /\ Enter(p)
    /\ DefaultScoped(meta'[p])
    /\ pc'[p] = "done"
    /\ ret'[p] = defaultClient

\* C11: a default-scoped get never waits: no caller with absent labels or an
\* absent or empty alias label is ever at the mutex or behind it, and a caller
\* about to call get can complete such a get in the current state, whoever
\* holds the mutex and whatever construction is under way.
C11_DefaultNeverWaits ==
    \A p \in Callers :
        /\ pc[p] \in InGet => ~DefaultScoped(meta[p])
        /\ (pc[p] = "idle" /\ ncalls < MaxCalls) => ENABLED DefaultGet(p)

\* C11 witness: a get with no label map has returned the default client
\* while another caller holds the mutex in the middle of a construction, the
\* typed constructor not yet called.
C11_Witness ==
    \E p, q \in Callers :
        /\ pc[p] = "done" /\ meta[p] = NilLabels /\ ret[p] = defaultClient
        /\ pc[q] = "typed" /\ m = q
        /\ ncalls = 2

(***************************************************************************)
(* Progress.  Every step of a get inside the section is a terminating call *)
(* of a running goroutine (weak fairness).  sync.Mutex hands the mutex to  *)
(* a waiter that has waited long enough (starvation mode), so a caller     *)
(* that finds the mutex free again and again gets it (strong fairness).    *)
(***************************************************************************)
\* The steps of caller p while it holds the mutex; at most one is enabled.
Section(p) ==
    \/ Lookup(p)
    \/ LoadConfig(p)
    \/ BuildProvider(p)
    \/ BuildTyped(p)
    \/ Finish(p)

Fairness ==
    \A p \in Callers :
        /\ SF_vars(Lock(p))
        /\ WF_vars(Section(p))

\* The five supported kinds differ only in the constructor name and the key
\* prefix, neither of which a step's enabling depends on; progress is checked
\* for one supported kind and for the unsupported one.
FairInit ==
    /\ \E kind \in {computeClientType, UnsupportedClientType} : FactoryInit(kind)
    /\ keyIn = NoKeyIn
    /\ keyOut = NoKeyOut

FairSpec == FairInit /\ [][Next]_vars /\ Fairness

\* The mutex is free whenever no caller is between Lock and its return.
LockFreeOutside == (\A p \in Callers : pc[p] \notin InSection) => m = Unlocked

\* While a get is in progress some caller can take a step.
NoDeadlock == (\E p \in Callers : pc[p] \in InGet) => ENABLED Next

\* C12: the mutex is released on each exit of a tenant-scoped get (hit,
\* success, failure), so it is free whenever no caller is inside the section;
\* some step is always possible while a get is in progress; and under fair
\* lock acquisition and terminating construction steps every get returns.
C12_ReleaseAndProgress ==
    /\ [](LockFreeOutside /\ NoDeadlock)
    /\ \A p \in Callers : (pc[p] \in InGet) ~> (pc[p] = "done")

\* C12 witness: gets have left through all three exits (a failure returned
\* the default client, a success stored acme's client, a later get hit it),
\* nobody is inside the section, and the mutex is free.
C12_Witness ==
    /\ m = Unlocked
    /\ \A p \in Callers : pc[p] \notin InSection
    /\ defaultClient \in returned["acme"]
    /\ KeyFor("acme") \in DOMAIN clients
    /\ \E p \in Callers : pc[p] = "done" /\ hit[p] /\ customProjectAlias[p] = "acme"

\* The calls a construction may make, in the only order allowed.
StepOrder == <<"loader", "provider", "typed">>

\* A well-formed record of one construction: the capabilities in order from
\* the loader, none twice, each one after the first called only because the
\* one before it succeeded.
WellOrdered(t) ==
    /\ Len(t) <= 3
    /\ \A i \in 1 .. Len(t) : t[i].step = StepOrder[i]
    /\ \A i \in 1 .. Len(t) - 1 : t[i].ok

\* C13: within one get the loader is called first and exactly once on a miss,
\* the provider builder at most once and only after the loader succeeded, a
\* typed constructor at most once and only after the provider builder
\* succeeded; a failing step is the last call of that get; a get that hits
\* or is default-scoped calls nothing.
C13_StepOrder ==
    \A p \in Callers :
        LET t == invoked[p] IN
        /\ WellOrdered(t)
        /\ pc[p] \in {"idle", "lock", "lookup", "config"} => t = <<>>
        /\ pc[p] = "provider" => Len(t) = 1 /\ t[1].ok
        /\ pc[p] = "typed" => Len(t) = 2 /\ t[2].ok
        /\ pc[p] = "finish" =>
              /\ Len(t) >= 1
              /\ err[p] = NilErr <=> (Len(t) = 3 /\ t[3].ok)
              /\ (Len(t) < 3 /\ t[Len(t)].ok) => clientType \notin ClientKinds
        /\ pc[p] = "done" =>
              IF DefaultScoped(meta[p]) \/ hit[p] THEN t = <<>> ELSE Len(t) >= 1

\* C13 witness: a get has returned after the loader and the provider builder
\* succeeded and the typed constructor failed: three calls, the last failing.
C13_Witness ==
    \E p \in Callers :
        /\ pc[p] = "done"
        /\ invoked[p] = <<[step |-> "loader", ok |-> TRUE],
                          [step |-> "provider", ok |-> TRUE],
                          [step |-> "typed", ok |-> FALSE]>>
        /\ ret[p] = defaultClient

\* The configuration file of alias a, written out.
ConfigFileOf(a) == "/etc/config//" \o a \o ".conf"

\* A client that a successful typed-constructor call produced from the
\* configuration of alias a.
BuiltFor(c, a) ==
    /\ c # NilClient
    /\ c # defaultClient
    /\ c.ctor \in {"NewComputeV2", "NewNetworkV2", "NewLoadBalancerV2", "NewKeyManagerV1"}
    /\ c.id \in 1 .. nextId - 1
    /\ c.file = ConfigFileOf(a)

\* C14: the value stored under the key of alias a was built by a successful
\* typed-constructor call from a's own configuration (never nil, never the
\* default client, never another alias's client); a get for alias a returns
\* the default client or a client built for a.
C14_TenantIsolation ==
    /\ \A a \in Aliases :
          /\ KeyFor(a) \in DOMAIN clients => BuiltFor(clients[KeyFor(a)], a)
          /\ \A c \in returned[a] : c = defaultClient \/ BuiltFor(c, a)
    /\ \A p \in Callers :
          (pc[p] = "done" /\ ~DefaultScoped(meta[p])) =>
              \/ ret[p] = defaultClient
              \/ BuiltFor(ret[p], meta[p].Labels[CustomProjectAliasLabel])

\* C14 witness: the cache holds a client for each of two aliases, each built
\* from its own configuration file, and a get for beta has returned beta's.
C14_Witness ==
    /\ {KeyFor("acme"), KeyFor("beta")} \subseteq DOMAIN clients
    /\ clients[KeyFor("acme")].file = "/etc/config//acme.conf"
    /\ clients[KeyFor("beta")].file = "/etc/config//beta.conf"
    /\ \E p \in Callers :
          /\ pc[p] = "done"
          /\ customProjectAlias[p] = "beta"
          /\ ret[p] = clients[KeyFor("beta")]

\* C15: any two gets for the same alias that both return a client other than
\* the default one return the identical instance, whether they ran one after
\* the other or at once, and whatever failed attempts came before.
C15_SameKeyAgreement ==
    /\ \A a \in Aliases : Cardinality(returned[a] \ {defaultClient}) <= 1
    /\ \A p, q \in Callers :
          (/\ pc[p] = "done" /\ pc[q] = "done"
           /\ ~DefaultScoped(meta[p]) /\ ~DefaultScoped(meta[q])
           /\ customProjectAlias[p] = customProjectAlias[q]
           /\ ret[p] # defaultClient /\ ret[q] # defaultClient) =>
              ret[p] = ret[q]

\* C15 witness: after a failed attempt for acme returned the default client,
\* two callers hold results for acme at once, neither the default client,
\* and they are the same instance.
C15_Witness ==
    /\ defaultClient \in returned["acme"]
    /\ \E p, q \in Callers :
          /\ p # q
          /\ pc[p] = "done" /\ pc[q] = "done"
          /\ customProjectAlias[p] = "acme" /\ customProjectAlias[q] = "acme"
          /\ ret[p] # defaultClient
          /\ ret[p] = ret[q]

\* C16: a step changes the map only as the store of a get for alias a whose
\* construction succeeded, and then it adds exactly the key of a and leaves
\* every other entry in place with the same instance; the return of a failed
\* construction leaves the whole map unchanged.
C16_Step ==
    /\ clients' # clients =>
          \E p \in Callers :
             LET key == KeyFor(customProjectAlias[p]) IN
             /\ pc[p] = "finish" /\ pc'[p] = "done"
             /\ err[p] = NilErr
             /\ key \notin DOMAIN clients
             /\ DOMAIN clients' = DOMAIN clients \cup {key}
             /\ \A k \in DOMAIN clients : clients'[k] = clients[k]
    /\ \A p \in Callers :
          (pc[p] = "finish" /\ pc'[p] = "done" /\ err[p] # NilErr) =>
              clients' = clients
    /\ \A p \in Callers :
          (pc[p] = "finish" /\ pc'[p] = "done" /\ err[p] = NilErr) =>
              /\ KeyFor(customProjectAlias[p]) \in DOMAIN clients'
              /\ Cardinality(DOMAIN clients') = Cardinality(DOMAIN clients) + 1

C16_Frame == [][C16_Step]_vars

\* C16 witness: with acme's client stored, a get for beta has failed and
\* returned; the map still holds acme's entry and nothing else.
C16_Witness ==
    /\ DOMAIN clients = {KeyFor("acme")}
    /\ clients[KeyFor("acme")].file = ConfigFileOf("acme")
    /\ \E p \in Callers :
          /\ pc[p] = "done"
          /\ customProjectAlias[p] = "beta"
          /\ err[p] # NilErr
          /\ ret[p] = defaultClient

====
